---------------------------- MODULE Spec2Model ----------------------------
(***************************************************************************)
(* Model of the esbuild-webserver package (package webserver): endpoint    *)
(* parsing (New / parseEndpoint / parseDest), router assembly (Start),     *)
(* and the three handlers (reverse proxy director, filesystemHandler,      *)
(* NotFoundFileHandler).                                                   *)
(*                                                                         *)
(* Go strings are TLA+ strings; they are taken apart with Len, SubSeq and  *)
(* \o only, so every split, prefix test and path normalisation is computed *)
(* character by character as the Go code computes it.                     *)
(***************************************************************************)
EXTENDS Naturals, Sequences, FiniteSets, TLC

VARIABLES
    args,     \* the endpoint strings handed to New (args.Endpoints in main)
    pc,       \* position of main: "main", "constructed", "serving", "fatal", "panic"
    server,   \* Server.endpoints: the ordered list of *Endpoint built by New
    parsed,   \* the parseEndpoint calls New has made, in order, with their locals
    router,   \* the mux router assembled by Start: routes and NotFoundHandler
    fs,       \* the file system the handlers read: absolute path -> entry
    req,      \* the last request dispatched, with the I/O outcomes it met
    resp      \* the response written for req, with the file operations performed

vars == <<args, pc, server, parsed, router, fs, req, resp>>

---------------------------------------------------------------------------
(* Bounds of the model.                                                    *)

MaxLen == 3          \* SpecParse: every string over ParseAlphabet up to this length
MaxEndpoints == 3    \* Spec: endpoint lists up to this length
MaxSegs == 3         \* SpecFS: request paths of up to this many segments

---------------------------------------------------------------------------
(* package strings                                                         *)

Char(s, i) == SubSeq(s, i, i)

Suffix(s, i) == IF i > Len(s) THEN "" ELSE SubSeq(s, i, Len(s))

Prefix(s, n) == IF n < 1 THEN "" ELSE SubSeq(s, 1, n)

\* strings.HasPrefix
HasPrefix(s, p) == Len(p) <= Len(s) /\ Prefix(s, Len(p)) = p

\* strings.Contains for a one-character substr
Contains(s, c) == \E i \in 1..Len(s) : Char(s, i) = c

\* strings.Index for a one-character substr; 0 when absent (Go: -1)
Index(s, c) ==
    IF Contains(s, c)
    THEN CHOOSE i \in 1..Len(s) :
            Char(s, i) = c /\ \A j \in 1..(i - 1) : Char(s, j) # c
    ELSE 0

\* strings.LastIndex for a one-character substr; 0 when absent
LastIndex(s, c) ==
    IF Contains(s, c)
    THEN CHOOSE i \in 1..Len(s) :
            Char(s, i) = c /\ \A j \in (i + 1)..Len(s) : Char(s, j) # c
    ELSE 0

\* A defective split that cuts after the LAST separator.
SplitAfterLast(s, sep) ==
    LET i == LastIndex(s, sep)
    IN  IF i = 0 THEN <<s>> ELSE <<Prefix(s, i), Suffix(s, i + 1)>>

\* strings.SplitAfterN(s, sep, 2): at most two pieces, cut after the first sep,
\* the separator kept at the end of the first piece; one piece when sep is absent.
SplitAfterN(s, sep) ==
    LET i == Index(s, sep)
    IN  IF i = 0 THEN <<s>> ELSE <<Prefix(s, i), Suffix(s, i + 1)>>

\* strings.Replace(s, old, "", 1): s without the first occurrence of old.
Replace(s, old) ==
    LET i == Index(s, old)
    IN  IF i = 0 THEN s ELSE Prefix(s, i - 1) \o Suffix(s, i + 1)

\* strings.Split(s, sep) for a one-character sep
RECURSIVE Split(_, _)
Split(s, sep) ==
    LET i == Index(s, sep)
    IN  IF i = 0 THEN <<s>>
        ELSE <<Prefix(s, i - 1)>> \o Split(Suffix(s, i + 1), sep)

\* strings.Join
RECURSIVE JoinStrings(_, _)
JoinStrings(elems, sep) ==
    IF elems = <<>> THEN ""
    ELSE IF Len(elems) = 1 THEN elems[1]
    ELSE elems[1] \o sep \o JoinStrings(Tail(elems), sep)

---------------------------------------------------------------------------
(* package path / path/filepath (Unix)                                     *)

Cwd == "/srv"    \* the working directory of the process

RECURSIVE CleanSegs(_, _, _)
CleanSegs(segs, out, rooted) ==
    IF segs = <<>> THEN out
    ELSE LET e == Head(segs)
             rest == Tail(segs)
         IN  IF e = "" \/ e = "." THEN CleanSegs(rest, out, rooted)
             ELSE IF e = ".."
             THEN IF out # <<>> /\ out[Len(out)] # ".."
                  THEN CleanSegs(rest, SubSeq(out, 1, Len(out) - 1), rooted)
                  ELSE IF rooted THEN CleanSegs(rest, out, rooted)
                  ELSE CleanSegs(rest, Append(out, ".."), rooted)
             ELSE CleanSegs(rest, Append(out, e), rooted)

\* path.Clean / filepath.Clean: the shortest equivalent path, purely lexically.
Clean(p) ==
    IF p = "" THEN "."
    ELSE LET rooted == Char(p, 1) = "/"
             body == JoinStrings(CleanSegs(Split(p, "/"), <<>>, rooted), "/")
             r == (IF rooted THEN "/" ELSE "") \o body
         IN  IF r = "" THEN "." ELSE r

\* filepath.Join: the elements from the first non-empty one on, joined by "/",
\* then cleaned.
RECURSIVE Join(_)
Join(elems) ==
    IF elems = <<>> THEN ""
    ELSE IF elems[1] = "" THEN Join(Tail(elems))
    ELSE Clean(JoinStrings(elems, "/"))

\* filepath.Abs: an absolute path is cleaned, a relative one is joined onto the
\* working directory.  (It fails only when the working directory cannot be read.)
Abs(p) == IF HasPrefix(p, "/") THEN Clean(p) ELSE Join(<<Cwd, p>>)

\* filepath.Ext: the suffix from the final dot of the final element; "" if none.
Ext(p) ==
    LET base == Suffix(p, LastIndex(p, "/") + 1)
        i == LastIndex(base, ".")
    IN  IF i = 0 THEN "" ELSE Suffix(base, i)

\* mime.TypeByExtension: the registered type of an extension (with its leading
\* dot), "" for an extension that has none.
TypeByExtension(ext) ==
    CASE ext = ".html" -> "text/html; charset=utf-8"
      [] ext = ".js"   -> "text/javascript; charset=utf-8"
      [] ext = ".css"  -> "text/css; charset=utf-8"
      [] OTHER         -> ""

---------------------------------------------------------------------------
(* Handlers are records tagged by their Go type.                           *)

Nil == [type |-> "nil"]

Letters == {"a","b","c","d","e","f","g","h","i","j","k","l","m",
            "n","o","p","q","r","s","t","u","v","w","x","y","z"}
Digits == {"0","1","2","3","4","5","6","7","8","9"}

\* url.getScheme: the scheme is the run of letters, digits, "+", "-" and "." (not
\* starting with one of the last four) that a ":" ends; "" with the whole string
\* when there is none; an error when the string starts with ":".
SchemeChars == Letters \union Digits \union {"+", "-", "."}

getScheme(raw) ==
    LET stops == {i \in 1..Len(raw) : Char(raw, i) \notin SchemeChars}
        i == IF stops = {} THEN 0
             ELSE CHOOSE k \in stops : \A j \in stops : k <= j
        none == [err |-> FALSE, scheme |-> "", rest |-> raw]
    IN  IF raw # "" /\ Char(raw, 1) \in SchemeChars \ Letters THEN none
        ELSE IF i = 0 \/ Char(raw, i) # ":" THEN none
        ELSE IF i = 1 THEN [err |-> TRUE, scheme |-> "", rest |-> raw]
        ELSE [err |-> FALSE, scheme |-> Prefix(raw, i - 1), rest |-> Suffix(raw, i + 1)]

\* url.Parse, for strings without fragment, user info, escapes or IPv6 literals:
\* scheme, then the query cut at the first "?", then "//" authority up to the next
\* "/", the remainder being the path.  A port must be digits.
urlParse(raw) ==
    LET s == getScheme(raw)
        q == Index(s.rest, "?")
        rest == IF q = 0 THEN s.rest ELSE Prefix(s.rest, q - 1)
        query == IF q = 0 THEN "" ELSE Suffix(s.rest, q + 1)
        bad == [err |-> TRUE, Scheme |-> "", Host |-> "", Path |-> "", RawQuery |-> ""]
    IN  IF s.err THEN bad
        ELSE IF ~HasPrefix(rest, "/") /\ s.scheme # ""
        THEN [err |-> FALSE, Scheme |-> s.scheme, Host |-> "", Path |-> "", RawQuery |-> query]
        ELSE IF ~HasPrefix(rest, "/") /\ Contains(Split(rest, "/")[1], ":")
        THEN bad    \* first path segment in URL cannot contain colon
        ELSE IF HasPrefix(rest, "//") /\ (s.scheme # "" \/ ~HasPrefix(rest, "///"))
        THEN LET auth == Suffix(rest, 3)
                 i == Index(auth, "/")
                 host == IF i = 0 THEN auth ELSE Prefix(auth, i - 1)
                 path == IF i = 0 THEN "" ELSE Suffix(auth, i)
                 c == LastIndex(host, ":")
                 port == IF c = 0 THEN "" ELSE Suffix(host, c + 1)
             IN  IF \E k \in 1..Len(port) : Char(port, k) \notin Digits
                 THEN bad    \* invalid port
                 ELSE [err |-> FALSE, Scheme |-> s.scheme, Host |-> host,
                       Path |-> path, RawQuery |-> query]
        ELSE [err |-> FALSE, Scheme |-> s.scheme, Host |-> "", Path |-> rest,
              RawQuery |-> query]

\* reverseProxy: the handler keeps the parsed destination its director reads.
proxyTo(destUrl) ==
    IF destUrl.err THEN [err |-> TRUE, handler |-> Nil]
    ELSE [err |-> FALSE,
          handler |-> [type |-> "proxy", Scheme |-> destUrl.Scheme,
                       Host |-> destUrl.Host, Path |-> destUrl.Path]]

reverseProxy(dest) == proxyTo(urlParse(dest))

\* NewNotFoundHandler / notFound: the path is kept as given.
notFound(file) == [type |-> "notfound", filePath |-> file]

\* newFSHandler / staticFiles: the root is made absolute; no fallback yet.
staticFiles(path) ==
    [type |-> "fs", path |-> Abs(path), notFoundHandler |-> Nil]

\* LoggingMiddleware(next): logs method and URI, then calls next.
LoggingMiddleware(next) == [type |-> "logging", next |-> next]

---------------------------------------------------------------------------
(* Endpoint parsing.  kind is "ok", "error" (an error value is returned) or *)
(* "panic" (index out of range on split[1]).                               *)

ParseResult(kind, mount, typeName, argument, dest) ==
    [kind |-> kind, MountPoint |-> mount, typeName |-> typeName,
     argument |-> argument, Destination |-> dest]

\* The "proxy" case of parseDest, given what reverseProxy returned.
proxyDest(typeName, argument, p) ==
    IF p.err THEN ParseResult("error", "", typeName, argument, Nil)
    ELSE ParseResult("ok", "", typeName, argument, p.handler)

\* The switch of parseDest.
destOf(typeName, argument) ==
    IF typeName = "proxy" THEN proxyDest(typeName, argument, reverseProxy(argument))
    ELSE IF typeName = "file"
    THEN ParseResult("ok", "", typeName, argument, staticFiles(argument))
    ELSE IF typeName = "404"
    THEN ParseResult("ok", "", typeName, argument, notFound(argument))
    ELSE ParseResult("error", "", typeName, argument, Nil)

destSplit(split) ==
    IF Len(split) < 2
    THEN ParseResult("panic", "", Replace(split[1], "="), "", Nil)
    ELSE destOf(Replace(split[1], "="), split[2])

parseDest(dest) == destSplit(SplitAfterN(dest, "="))

endpointSplit(split) ==
    IF Len(split) < 2
    THEN ParseResult("panic", Replace(split[1], ":"), "", "", Nil)
    ELSE [parseDest(split[2]) EXCEPT !.MountPoint = Replace(split[1], ":")]

parseEndpoint(e) == endpointSplit(SplitAfterN(e, ":"))

\* New: parse the endpoints in order, stop at the first failure.  results[i] is
\* what parseEndpoint returns for the i-th endpoint, stop the last one parsed.
newResult(results, stop) ==
    [kind |-> results[stop].kind,
     endpoints |-> IF results[stop].kind = "ok"
                   THEN [i \in 1..Len(results) |->
                            [MountPoint |-> results[i].MountPoint,
                             Destination |-> results[i].Destination]]
                   ELSE <<>>,
     parsed |-> SubSeq(results, 1, stop)]

firstFailure(results) ==
    IF \A i \in 1..Len(results) : results[i].kind = "ok" THEN Len(results)
    ELSE CHOOSE i \in 1..Len(results) :
            /\ results[i].kind # "ok"
            /\ \A j \in 1..(i - 1) : results[j].kind = "ok"

newFrom(results) ==
    IF results = <<>> THEN [kind |-> "ok", endpoints |-> <<>>, parsed |-> <<>>]
    ELSE newResult(results, firstFailure(results))

New(endpoints) ==
    newFrom([i \in 1..Len(endpoints) |-> parseEndpoint(endpoints[i])])

---------------------------------------------------------------------------
(* Router assembly.                                                        *)

\* The first loop of Start: the router's NotFoundHandler is the (logging-wrapped)
\* destination of the last endpoint whose destination is a NotFoundFileHandler.
RECURSIVE notFoundOf(_, _)
notFoundOf(endpoints, acc) ==
    IF endpoints = <<>> THEN acc
    ELSE notFoundOf(Tail(endpoints),
                    IF Head(endpoints).Destination.type = "notfound"
                    THEN LoggingMiddleware(Head(endpoints).Destination)
                    ELSE acc)

\* The second loop of Start: one PathPrefix route per endpoint, in list order; a
\* filesystemHandler is registered as a copy carrying the router's NotFoundHandler,
\* a NotFoundFileHandler is not registered.
RECURSIVE routesOf(_, _)
routesOf(endpoints, nfh) ==
    IF endpoints = <<>> THEN <<>>
    ELSE LET e == Head(endpoints)
             rest == routesOf(Tail(endpoints), nfh)
         IN  IF e.Destination.type = "fs"
             THEN <<[prefix |-> e.MountPoint,
                     handler |-> [e.Destination EXCEPT !.notFoundHandler = nfh]]>> \o rest
             ELSE IF e.Destination.type = "notfound" THEN rest
             ELSE <<[prefix |-> e.MountPoint, handler |-> e.Destination]>> \o rest

Reverse(q) == [i \in 1..Len(q) |-> q[Len(q) + 1 - i]]

\* A defective Start that registers the routes last endpoint first.
StartReversed(endpoints) ==
    LET nfh == notFoundOf(endpoints, Nil)
    IN  [routes |-> Reverse(routesOf(endpoints, nfh)), NotFoundHandler |-> nfh]

\* A defective Start with one loop: a filesystemHandler gets whatever
\* NotFoundHandler the endpoints before it have set.
RECURSIVE onePassRoutes(_, _)
onePassRoutes(endpoints, nfh) ==
    IF endpoints = <<>> THEN <<>>
    ELSE LET e == Head(endpoints)
         IN  IF e.Destination.type = "notfound"
             THEN onePassRoutes(Tail(endpoints), LoggingMiddleware(e.Destination))
             ELSE routesOf(<<e>>, nfh) \o onePassRoutes(Tail(endpoints), nfh)

StartOnePass(endpoints) ==
    [routes |-> onePassRoutes(endpoints, Nil),
     NotFoundHandler |-> notFoundOf(endpoints, Nil)]

\* Server.Start up to ListenAndServe: the assembled router.
Start(endpoints) ==
    LET nfh == notFoundOf(endpoints, Nil)
    IN  [routes |-> routesOf(endpoints, nfh), NotFoundHandler |-> nfh]

NoRouter == [routes |-> <<>>, NotFoundHandler |-> Nil]

---------------------------------------------------------------------------
(* The file system.  An entry is a file or a directory; a path outside the *)
(* domain does not exist.                                                  *)

Dir == [kind |-> "dir", readable |-> TRUE, data |-> ""]
File(data) == [kind |-> "file", readable |-> TRUE, data |-> data]
Unreadable == [kind |-> "file", readable |-> FALSE, data |-> "x"]

IndexPath == "/srv/dist/index.html"
AppPath == "/srv/dist/app.js"

Entry(path, what) ==
    CASE what = "absent"     -> <<>>
      [] what = "unreadable" -> path :> Unreadable
      [] what = "dir"        -> path :> Dir
      [] OTHER               -> path :> File(what)

\* /srv/dist is the served root; /srv/dist2 is a sibling directory whose name
\* starts with the root's name.
MkFs(idx, app) ==
    Entry(IndexPath, idx) @@ Entry(AppPath, app) @@
    ("/srv" :> Dir @@ "/srv/dist" :> Dir @@ "/srv/dist2" :> Dir @@
     "/srv/dist2/key" :> File("secret"))

FsStates ==
    {MkFs(idx, app) : idx \in {"absent", "v1", "unreadable", "dir"},
                      app \in {"absent", "js", "unreadable"}}

\* os.Stat: fails for a path that does not exist.
statAt(fsys, a) ==
    IF a \notin DOMAIN fsys THEN [err |-> TRUE, IsDir |-> FALSE, path |-> a]
    ELSE [err |-> FALSE, IsDir |-> fsys[a].kind = "dir", path |-> a]

Stat(fsys, p) == statAt(fsys, Abs(p))

\* os.Open: fails for a path that does not exist or may not be read; a directory
\* opens, and every read from it fails.
openAt(fsys, a) ==
    IF a \notin DOMAIN fsys \/ ~fsys[a].readable
    THEN [err |-> TRUE, path |-> a, isDir |-> FALSE, data |-> ""]
    ELSE [err |-> FALSE, path |-> a, isDir |-> fsys[a].kind = "dir",
          data |-> fsys[a].data]

Open(fsys, p) == openAt(fsys, Abs(p))

\* What the environment does to one request: a read error in io.ReadAll, a copy
\* error in io.Copy after `copied` bytes, the status the upstream answers with.
IoOk == [readErr |-> FALSE, copyErr |-> FALSE, copied |-> 0, upstream |-> 200]
IOChoices ==
    {IoOk,
     [IoOk EXCEPT !.readErr = TRUE],
     [IoOk EXCEPT !.copyErr = TRUE],
     [IoOk EXCEPT !.copyErr = TRUE, !.copied = 1],
     [IoOk EXCEPT !.upstream = 503]}

\* The outcomes that bear on the file handlers.
FileIO == {io \in IOChoices : io.upstream = 200}

---------------------------------------------------------------------------
(* Requests and responses.                                                 *)

\* An incoming request: RequestURI as sent, URL.Path and URL.RawQuery as
\* net/http parses them from it.
Request(uri) ==
    LET q == Index(uri, "?")
    IN  [RequestURI |-> uri,
         Path |-> IF q = 0 THEN uri ELSE Prefix(uri, q - 1),
         RawQuery |-> IF q = 0 THEN "" ELSE Suffix(uri, q + 1)]

Unset == "<unset>"

\* A response as the handler leaves it: status 200 unless WriteHeader was called.
\* ops lists the file operations made, via the handlers entered, fallbacks the
\* number of calls of a notFoundHandler, resolved the path filesystemHandler
\* computed, outbound the URL the proxy director produced.
Response ==
    [status |-> 200, body |-> "", ctype |-> Unset, ops |-> <<>>, via |-> <<>>,
     fallbacks |-> 0, resolved |-> "", outbound |-> ""]

\* http.Error
Error(msg, code, by) ==
    [Response EXCEPT !.status = code, !.body = msg \o "\n",
                     !.ctype = "text/plain; charset=utf-8", !.via = <<by>>]

Op(op, path, by) == [op |-> op, path |-> path, by |-> by]

\* NotFoundFileHandler.ServeHTTP after os.Open returned f: the diagnostic when the
\* open failed, else the copy, which fails on a directory or on an I/O error.
notFoundCopy(f, io) ==
    IF f.err THEN "unable to get 404 page"
    ELSE IF f.isDir THEN "unable to send 404 page"
    ELSE IF io.copyErr THEN Prefix(f.data, io.copied) \o "unable to send 404 page"
    ELSE f.data

notFoundServe(f, io) ==
    [Response EXCEPT !.via = <<"notfound">>, !.body = notFoundCopy(f, io),
                     !.ops = <<Op("open", f.path, "notfound")>>]

\* A defective NotFoundFileHandler that answers 404 when its file cannot be opened.
notFoundStrict(f, io) ==
    IF f.err
    THEN [Error("unable to get 404 page", 404, "notfound")
             EXCEPT !.ops = <<Op("open", f.path, "notfound")>>]
    ELSE notFoundServe(f, io)

NotFoundFileHandlerStrict(n, request, fsys, io) ==
    notFoundStrict(Open(fsys, n.filePath), io)

\* NotFoundFileHandler.ServeHTTP
NotFoundFileHandlerServeHTTP(n, request, fsys, io) ==
    notFoundServe(Open(fsys, n.filePath), io)

\* A defective director that replaces the request path by the destination's.
directorReplace(h, request) ==
    h.Scheme \o "://" \o h.Host \o h.Path \o
    (IF request.RawQuery = "" THEN "" ELSE "?" \o request.RawQuery)

\* The director of reverseProxy: the outbound URL, as a string.
director(h, request) ==
    h.Scheme \o "://" \o h.Host \o (h.Path \o request.Path) \o
    (IF request.RawQuery = "" THEN "" ELSE "?" \o request.RawQuery)

\* httputil.ReverseProxy.ServeHTTP: the upstream's answer is passed on.
ReverseProxyServeHTTP(h, request, fsys, io) ==
    [Response EXCEPT !.status = io.upstream, !.body = "<upstream>",
                     !.via = <<"proxy">>, !.outbound = director(h, request)]

RECURSIVE ServeHTTP(_, _, _, _)

\* The response sub, written after the handler had got as far as pre.
After(pre, sub) ==
    [sub EXCEPT !.ops = pre.ops \o sub.ops, !.via = pre.via \o sub.via,
                !.resolved = pre.resolved]

\* A defective fallback step that always answers the generic 404.
alwaysNotFound(f, request, fsys, io, pre, msg) ==
    After(pre, Error(msg, 404, "fs"))

\* The handler's answer once the notFoundHandler has answered with sub.
delegated(pre, sub) ==
    After([pre EXCEPT !.via = Append(@, "fs")], [sub EXCEPT !.fallbacks = @ + 1])

\* The step filesystemHandler takes when Stat or Open fails: the generic 404 when
\* no notFoundHandler is set, else the whole request goes to the notFoundHandler.
fallbackOrNotFound(f, request, fsys, io, pre, msg) ==
    IF f.notFoundHandler = Nil
    THEN After(pre, Error(msg, 404, "fs"))
    ELSE delegated(pre, ServeHTTP(f.notFoundHandler, request, fsys, io))

\* The file name filesystemHandler takes from the request: RequestURI without
\* one leading "/", "./" when nothing is left.
stripSlash(uri) == IF HasPrefix(uri, "/") THEN Suffix(uri, 2) ELSE uri

orRoot(uri) == IF uri = "" THEN "./" ELSE uri

requestFile(uri) == orRoot(stripSlash(uri))

\* fullPath, cleanPath and absFilePath of filesystemHandler.ServeHTTP.
resolvePath(f, request) ==
    Abs(Clean(Join(<<f.path, "/", requestFile(request.RequestURI)>>)))

\* filesystemHandler.ServeHTTP once the file at target is opened.
serveOpened(f, request, fsys, io, pre, target, file) ==
    IF file.err
    THEN fallbackOrNotFound(f, request, fsys, io, pre, "404 - Not found")
    ELSE IF file.isDir \/ io.readErr
    THEN After(pre, Error("Internal server error", 500, "fs"))
    ELSE [pre EXCEPT !.via = <<"fs">>, !.body = file.data,
                     !.ctype = TypeByExtension("." \o Ext(target))]

serveTarget(f, request, fsys, io, pre, target) ==
    serveOpened(f, request, fsys, io,
                [pre EXCEPT !.ops = Append(@, Op("open", target, "fs"))],
                target, Open(fsys, target))

\* filesystemHandler.ServeHTTP once absFilePath has passed the prefix test and
\* os.Stat has returned stat.
serveStatted(f, request, fsys, io, pre, absFilePath, stat) ==
    IF stat.err
    THEN fallbackOrNotFound(f, request, fsys, io, pre,
                            "404 - Not found (not found handler missing)")
    ELSE serveTarget(f, request, fsys, io, pre,
                     IF stat.IsDir THEN absFilePath \o "/index.html" ELSE absFilePath)

\* filesystemHandler.ServeHTTP once absFilePath is computed: the prefix test
\* against the root, then Stat.
serveResolved(f, request, fsys, io, absFilePath) ==
    IF ~HasPrefix(absFilePath, f.path)
    THEN After([Response EXCEPT !.resolved = absFilePath],
               Error("404 - Not found", 404, "fs"))
    ELSE serveStatted(f, request, fsys, io,
                      [Response EXCEPT !.resolved = absFilePath,
                                       !.ops = <<Op("stat", absFilePath, "fs")>>],
                      absFilePath, Stat(fsys, absFilePath))

\* filesystemHandler.ServeHTTP
filesystemHandlerServeHTTP(f, request, fsys, io) ==
    serveResolved(f, request, fsys, io, resolvePath(f, request))

logged(r) == [r EXCEPT !.via = <<"logging">> \o @]

ServeHTTP(h, request, fsys, io) ==
    IF h.type = "logging" THEN logged(ServeHTTP(h.next, request, fsys, io))
    ELSE IF h.type = "fs" THEN filesystemHandlerServeHTTP(h, request, fsys, io)
    ELSE IF h.type = "notfound" THEN NotFoundFileHandlerServeHTTP(h, request, fsys, io)
    ELSE ReverseProxyServeHTTP(h, request, fsys, io)

\* A PathPrefix route matches a path that starts with its template; a template
\* that does not start with "/" makes a route that matches nothing.
Matches(route, request) ==
    /\ route.prefix = "" \/ HasPrefix(route.prefix, "/")
    /\ HasPrefix(request.Path, route.prefix)

\* The router serving a request: the first matching route in registration order,
\* behind the logging middleware; with no match the NotFoundHandler, or the
\* generic 404 when there is none.
firstMatch(r, request) ==
    IF \A i \in 1..Len(r.routes) : ~Matches(r.routes[i], request) THEN 0
    ELSE CHOOSE i \in 1..Len(r.routes) :
            /\ Matches(r.routes[i], request)
            /\ \A j \in 1..(i - 1) : ~Matches(r.routes[j], request)

dispatchTo(r, request, fsys, io, i) ==
    IF i # 0
    THEN ServeHTTP(LoggingMiddleware(r.routes[i].handler), request, fsys, io)
    ELSE IF r.NotFoundHandler # Nil
    THEN ServeHTTP(r.NotFoundHandler, request, fsys, io)
    ELSE Error("404 page not found", 404, "mux")

Dispatch(r, request, fsys, io) ==
    dispatchTo(r, request, fsys, io, firstMatch(r, request))

---------------------------------------------------------------------------
(* Inputs.                                                                 *)

RECURSIVE Strings(_, _)
Strings(alphabet, n) ==
    IF n = 0 THEN {""}
    ELSE LET S == Strings(alphabet, n - 1)
         IN  S \union {s \o c : s \in S, c \in alphabet}

RECURSIVE Lists(_, _)
Lists(S, n) ==
    IF n = 0 THEN {<<>>}
    ELSE LET L == Lists(S, n - 1)
         IN  L \union {Append(l, x) : l \in L, x \in S}

ParseAlphabet == {":", "=", "a"}

Mounts == {"", "/", "/api", "404"}
KindTexts == {"proxy", "file", "404", "", "bogus", "fi:le"}
Arguments == {"", "./dist", "http://127.0.0.1:8080?a=b", "a=b:c", ":x"}

\* Endpoint strings for the parser: every short string over ParseAlphabet, and
\* every <mount>:<kind>=<argument> built from the pieces above.
ParseInputs ==
    Strings(ParseAlphabet, MaxLen)
    \union {m \o ":" \o k \o "=" \o a : m \in Mounts, k \in KindTexts, a \in Arguments}

ParseLists ==
    {<<e>> : e \in ParseInputs}
    \union {<<"/:file=./dist", e>> : e \in Strings(ParseAlphabet, MaxLen)}

RouterEndpoints ==
    {"/api:proxy=http://localhost:9000", "/:file=./dist",
     "404:404=./dist/index.html", "404:file=./dist", "/nf:404=./dist/app.js"}

RouterLists ==
    Lists(RouterEndpoints, MaxEndpoints)
    \union {<<"/api:proxy=http://localhost:9000", "/:file=./dist",
              "404:404=./dist/index.html">>}

RouterURIs == {"/api/foo", "/api/foo?a=b", "/missing.js", "/", "/nf"}

StaticLists ==
    {<<"/:file=./dist">>,
     <<"/:file=./dist", "404:404=./dist/index.html">>,
     <<"404:404=./dist/index.html", "/dist2:file=./dist">>}

Segments == {"..", "app.js", "dist2"}
Queries == {"", "?v=1", "?/../../dist2/key"}

StaticURIs ==
    {"/" \o JoinStrings(segs, "/") \o q : segs \in Lists(Segments, MaxSegs), q \in Queries}

---------------------------------------------------------------------------
(* The program.                                                            *)

NoRequest == [RequestURI |-> "", Path |-> "", RawQuery |-> "", io |-> IoOk]

Begin(lists, fss) ==
    /\ args \in lists
    /\ fs \in fss
    /\ pc = "main"
    /\ server = <<>>
    /\ parsed = <<>>
    /\ router = NoRouter
    /\ req = NoRequest
    /\ resp = Response

\* main: webserver.New(args.Endpoints); an error is fatal, a panic ends the process.
NewAction ==
    /\ pc = "main"
    /\ \E r \in {New(args)} :
           /\ pc' = (IF r.kind = "ok" THEN "constructed"
                     ELSE IF r.kind = "error" THEN "fatal" ELSE "panic")
           /\ server' = r.endpoints
           /\ parsed' = r.parsed
    /\ UNCHANGED <<args, router, fs, req, resp>>

\* main: s.Start(args.Listen), up to the listener accepting requests.
StartAction ==
    /\ pc = "constructed"
    /\ router' = Start(server)
    /\ pc' = "serving"
    /\ UNCHANGED <<args, server, parsed, fs, req, resp>>

\* One request served by the router, the front door being idle.
Serve(uri, io) ==
    /\ pc = "serving"
    /\ req = NoRequest
    /\ req' = Request(uri) @@ [io |-> io]
    /\ resp' = Dispatch(router, Request(uri), fs, io)
    /\ UNCHANGED <<args, pc, server, parsed, router, fs>>

ServeRouted == \E uri \in RouterURIs, io \in IOChoices : Serve(uri, io)

ServeStatic == \E uri \in StaticURIs, io \in FileIO : Serve(uri, io)

\* The response is sent and the connection is done with.
Finish ==
    /\ req # NoRequest
    /\ req' = NoRequest
    /\ resp' = Response
    /\ UNCHANGED <<args, pc, server, parsed, router, fs>>

\* The developer rewrites dist/index.html while the server runs.
WriteFile ==
    /\ req = NoRequest
    /\ IndexPath \in DOMAIN fs
    /\ fs[IndexPath].kind = "file" /\ fs[IndexPath].readable
    /\ fs' = [fs EXCEPT ![IndexPath].data = IF @ = "v1" THEN "v2" ELSE "v1"]
    /\ UNCHANGED <<args, pc, server, parsed, router, req, resp>>

\* Router assembly and routing over endpoint lists.
Init == Begin(RouterLists, {MkFs("v1", "js")})
Next == NewAction \/ StartAction \/ ServeRouted \/ Finish
Spec == Init /\ [][Next]_vars

\* The parser over endpoint strings.
InitParse == Begin(ParseLists, {MkFs("v1", "js")})
NextParse == NewAction
SpecParse == InitParse /\ [][NextParse]_vars

\* The file handlers over file systems and request URIs.
InitFS == Begin(StaticLists, FsStates)
NextFS == NewAction \/ StartAction \/ ServeStatic \/ Finish \/ WriteFile
SpecFS == InitFS /\ [][NextFS]_vars

---------------------------------------------------------------------------
(* Properties.                                                             *)

\* p lies in the directory tree of root.
Inside(p, root) == p = root \/ HasPrefix(p, root \o "/")

Served == pc = "serving" /\ req # NoRequest

\* The route the router chose for req (0: none), and whether its handler is a
\* filesystemHandler.
Route == firstMatch(router, req)
ByFS == Served /\ Route # 0 /\ router.routes[Route].handler.type = "fs"
FSHandler == router.routes[Route].handler
Root == FSHandler.path

\* The endpoint string has no ":" or no "=" after its first ":".
Malformed(e) ==
    \/ ~Contains(e, ":")
    \/ ~Contains(Suffix(e, Index(e, ":") + 1), "=")

\* Stat fails at p, or Open fails at p, or p is a directory without a readable
\* index.html.
Unservable(fsys, p) ==
    \/ p \notin DOMAIN fsys
    \/ /\ p \in DOMAIN fsys
       /\ fsys[p].kind = "file"
       /\ ~fsys[p].readable
    \/ /\ p \in DOMAIN fsys
       /\ fsys[p].kind = "dir"
       /\ \/ (p \o "/index.html") \notin DOMAIN fsys
          \/ /\ (p \o "/index.html") \in DOMAIN fsys
             /\ ~fsys[p \o "/index.html"].readable

\* The file of the router's NotFoundFileHandler, as the file system has it.
NotFoundPath == Abs(router.NotFoundHandler.next.filePath)
NotFoundOpens ==
    /\ NotFoundPath \in DOMAIN fs
    /\ fs[NotFoundPath].readable
NotFoundCopies ==
    /\ NotFoundOpens
    /\ fs[NotFoundPath].kind = "file"
    /\ ~req.io.copyErr

EndsWith(s, t) == Len(t) <= Len(s) /\ Suffix(s, Len(s) - Len(t) + 1) = t

E2E == <<"/api:proxy=http://localhost:9000", "/:file=./dist",
         "404:404=./dist/index.html">>

\* C1: a Static File Handler rooted at R stats and opens only paths inside the
\* directory tree of R, and a request whose normalized path leaves R is answered
\* 404 with no stat, no open and no call of the fallback handler.
C1_OnlyInsideRoot ==
    ByFS =>
        /\ \A i \in 1..Len(resp.ops) :
              resp.ops[i].by = "fs" => Inside(resp.ops[i].path, Root)
        /\ ~Inside(resp.resolved, Root) =>
              /\ resp.status = 404
              /\ resp.ops = <<>>
              /\ resp.fallbacks = 0

\* C2: an endpoint string with no ":" or with no "=" after its first ":" makes New
\* return an error (never panic), and no Server.
C2_MalformedIsError ==
    (pc # "main" /\ parsed # <<>> /\ Malformed(args[Len(parsed)])) =>
        /\ parsed[Len(parsed)].kind = "error"
        /\ pc = "fatal"
        /\ server = <<>>

C5_ContentTypeByExtension ==
    (ByFS /\ resp.status = 200 /\ resp.fallbacks = 0) =>
        /\ resp.ctype = TypeByExtension(Ext(resp.ops[Len(resp.ops)].path))
        /\ (req.RequestURI = "/" /\ Root = "/srv/dist") =>
              /\ resp.body = fs[IndexPath].data
              /\ resp.ctype = "text/html; charset=utf-8"

\* The endpoints whose destination is a NotFoundFileHandler.
NotFoundEndpoints == {i \in 1..Len(server) : server[i].Destination.type = "notfound"}
FSRoutes == {i \in 1..Len(router.routes) : router.routes[i].handler.type = "fs"}

Prefixes(routes) == [i \in 1..Len(routes) |-> routes[i].prefix]
MountPoints(endpoints) == [i \in 1..Len(endpoints) |-> endpoints[i].MountPoint]
NotSentinel(e) == e.MountPoint # "404"
NotNotFound(e) == e.Destination.type # "notfound"

C8_FirstOccurrenceSplit ==
    \A i \in 1..Len(parsed) :
        ~Malformed(args[i]) =>
            /\ parsed[i].kind # "panic"
            /\ args[i] = parsed[i].MountPoint \o ":" \o parsed[i].typeName
                            \o "=" \o parsed[i].argument
            /\ ~Contains(parsed[i].MountPoint, ":")
            /\ ~Contains(parsed[i].typeName, "=")
            /\ (parsed[i].kind = "ok" /\ parsed[i].typeName = "404") =>
                  parsed[i].Destination.filePath = parsed[i].argument

\* C8: the endpoint whose argument holds its own ":" and "=" has been parsed.
C8_Witness ==
    /\ parsed # <<>>
    /\ args[1] = "/api:proxy=http://127.0.0.1:8080?a=b"
    /\ parsed[1].MountPoint = "/api"
    /\ parsed[1].typeName = "proxy"
    /\ parsed[1].argument = "http://127.0.0.1:8080?a=b"

NotFoundCalls == {i \in 1..Len(resp.via) : resp.via[i] = "notfound"}

\* C9: every call of the Not-Found File Handler ends with an answer of status 200
\* and calls no other handler: the file's current bytes when it is opened and
\* copied, "unable to get 404 page" when the open fails, "unable to send 404
\* page" written when the copy fails.
C9_NotFoundAlwaysAnswers ==
    (Served /\ NotFoundCalls # {}) =>
        /\ NotFoundCalls = {Len(resp.via)}
        /\ resp.status = 200
        /\ resp.ops[Len(resp.ops)] = Op("open", NotFoundPath, "notfound")
        /\ IF ~NotFoundOpens THEN resp.body = "unable to get 404 page"
           ELSE IF ~NotFoundCopies THEN EndsWith(resp.body, "unable to send 404 page")
           ELSE resp.body = fs[NotFoundPath].data

\* C9: the handler has answered with the bytes written after the server started.
C9_Witness ==
    /\ Served
    /\ NotFoundCalls # {}
    /\ NotFoundCopies
    /\ resp.body = "v2"

\* C10: the file a Static File Handler resolves depends on the request's path
\* only: the path without one leading "/", the root itself when nothing is left,
\* joined onto the root; the query string changes neither the file nor the answer.
C10_PathOnly ==
    ByFS =>
        /\ resp.resolved = Abs(Join(<<Root, "/", requestFile(req.Path)>>))
        /\ resp = Dispatch(router, Request(req.Path), fs, req.io)

=============================================================================
